---- MODULE Spec2Model ----
(***************************************************************************)
(* Model of the PuDoMS preprocessing script pudoms_to_hdf5.py: the main    *)
(* routine creates one or two incremental HDF5 stores, walks the dataset   *)
(* index in list order, extracts a log-mel spectrogram and a piano roll    *)
(* per sample, appends them to the stores and finally closes the stores.   *)
(*                                                                         *)
(* A matrix is modelled by its columns: a sequence with one abstract value *)
(* per time step, 0 for an all-zero column and 1 for a column with some    *)
(* non-zero entry.  The feature height is fixed and plays no role in the   *)
(* script's control flow.  A store is modelled by the sequence of          *)
(* append(matrix, metadata) calls it has received.  An exception that the  *)
(* script does not catch ends the run (pc = "aborted").                    *)
(*                                                                         *)
(* Three specifications share the module: Spec follows the main routine,   *)
(* SpecStore one feature store from the inside (buffer, flush loop,        *)
(* metadata), SpecIndex the dataset index of PuDoMS.py together with the   *)
(* MIDI path resolution applied to its entries.  Each leaves the other     *)
(* two parts' variables at their unused values.                            *)
(***************************************************************************)
EXTENDS Integers, Sequences, FiniteSets, TLC

\* Longest sample list explored.
MaxSamples == 2
\* Widest matrix (in columns) an extractor returns.
MaxWidth == 2
\* Feature store: most appends to one store, widest appended matrix, and the
\* largest data and metadata chunk lengths explored.
MaxAppends == 3
MaxAppendWidth == 4
MaxChunkLength == 3
MaxMetaChunkLength == 2
\* Dataset index: most rows in the CSV file explored.
MaxRows == 2

VARIABLES
    IGNORE_MEL,   \* CONF.IGNORE_MEL
    data,         \* all.data: the ordered list of (path, meta) pairs
    disk,         \* state of the two output paths
    closes,       \* the close() calls made so far, in order
    pc,           \* position of the main routine
    error,        \* the uncaught exception that ended the run, or "none"
    i,            \* loop counter of enumerate(all.data, 1)
    midipath,     \* resolved MIDI path of the current sample
    metadata,     \* str((basepath, *meta)) of the current sample
    logmel,       \* spectrogram of the current sample
    vstack,       \* value of np.vstack([...]) for the current sample
    roll,         \* roll of the current sample (padded in place)
    len_roll,     \* roll.shape[1] before padding
    len_logmel,   \* logmel.shape[1]
    h5mel,        \* appends received by the spectrogram store
    h5roll,       \* appends received by the roll store
    outcome       \* history: what happened to each list entry

\* One feature store (IncrementalHDF5) seen from the inside.
VARIABLES
    fs_state,               \* "unused", "open" or "closed"
    fs_error,               \* the error the last store call failed with, or "none"
    feature_height,         \* fixed at creation
    data_chunk_length,      \* fixed at creation
    metadata_chunk_length,  \* fixed at creation
    write_buffer,           \* columns appended and not yet flushed
    buffered_metadata,      \* entries whose columns are not all flushed yet
    ready_metadata,         \* entries whose columns are flushed, awaiting a chunk
    committed,              \* the on-disk numeric array, column by column
    sample_boundaries,      \* the on-disk metadata array: (offset, metadata)
    flushes,                \* history: every flush_data call (caller, width)
    appended                \* history: the widths of the matrices appended

store_vars == <<fs_state, fs_error, feature_height, data_chunk_length,
                metadata_chunk_length, write_buffer, buffered_metadata,
                ready_metadata, committed, sample_boundaries, flushes, appended>>

\* The dataset index (MONO_pudoms) and the resolution of one MIDI path.
VARIABLES
    idx_state,     \* "unused", "new", "constructed" or "rejected"
    idx_error,     \* the exception the last index call raised, or "none"
    csv,           \* the rows of monophonic_midi.csv
    splits_arg,    \* the splits argument: <<>> for None, <<S>> for the set S
    self_data,     \* self.data: the list of (str(id), meta)
    basename_arg,  \* the argument of the last get_file_abspath call
    abspath,       \* what that call returned
    resolved_base, \* os.path.basename(path) of the entry last resolved
    exists_mid,    \* os.path.exists(midipath_mid) at the last resolution
    exists_midi,   \* os.path.exists(midipath_midi) at the last resolution
    resolved       \* the MIDI path that resolution chose, or NoPath

index_vars == <<idx_state, idx_error, csv, splits_arg, self_data, basename_arg,
                abspath, resolved_base, exists_mid, exists_midi, resolved>>

aux == <<store_vars, index_vars>>

vars == <<IGNORE_MEL, data, disk, closes, pc, error, i, midipath, metadata,
          logmel, vstack, roll, len_roll, len_logmel, h5mel, h5roll, outcome,
          aux>>

main_vars == <<IGNORE_MEL, data, disk, closes, pc, error, i, midipath, metadata,
               logmel, vstack, roll, len_roll, len_logmel, h5mel, h5roll,
               outcome>>

locals == <<midipath, metadata, logmel, vstack, roll, len_roll, len_logmel>>

(***************************************************************************)
(* The dataset index.  An entry is (path, meta) with meta the tuple        *)
(* (Split, Duration, Composer, Title).  A path is a string: the list of    *)
(* its characters.                                                         *)
(***************************************************************************)
Entries ==
    { << <<"a">>,           <<"train", 1, "comp", "t1">> >>,
      << <<"d", "/", "a">>, <<"test",  2, "comp", "t2">> >>,
      << <<"b">>,           <<"train", 1, "comp", "t1">> >> }

SampleLists == UNION { [1..n -> Entries] : n \in 0..MaxSamples }

\* os.path.basename: what follows the last separator
RECURSIVE basename(_)
basename(path) ==
    IF \E k \in 1..Len(path) : path[k] = "/"
      THEN basename(Tail(path))
      ELSE path

\* str() of a tuple: the elements between parentheses
Str(t) == <<"(">> \o t \o <<")">>

MetadataOfPath(entry) == Str(<<entry[1]>> \o entry[2])

\* metadata = str((basepath, *meta))
Metadata(entry) == Str(<<basename(entry[1])>> \o entry[2])

\* os.path.join(CONF.INPATH, f"{basepath}.<ext>")
MidiPath(basepath, ext) == <<"INPATH", basepath, ext>>

(***************************************************************************)
(* Matrices                                                                *)
(***************************************************************************)
Logmels == { [k \in 1..w |-> 1] : w \in 0..MaxWidth }
Rolls   == UNION { [1..w -> {0, 1}] : w \in 0..MaxWidth }

Zeros(n) == [k \in 1..n |-> 0]

PadLeft(m, n) == Zeros(n) \o m

\* np.pad(roll, ((0, 0), (0, n))): n zero columns on the right
Pad(m, n) == m \o Zeros(n)

OutPaths == {"mel", "roll"}

\* The feature store's internals are not followed in this specification.
StoreUnused ==
    /\ fs_state = "unused"
    /\ fs_error = "none"
    /\ feature_height = 0
    /\ data_chunk_length = 0
    /\ metadata_chunk_length = 0
    /\ write_buffer = <<>>
    /\ buffered_metadata = <<>>
    /\ ready_metadata = <<>>
    /\ committed = <<>>
    /\ sample_boundaries = <<>>
    /\ flushes = <<>>
    /\ appended = <<>>

\* The dataset index is not followed in this specification.
IndexUnused ==
    /\ idx_state = "unused"
    /\ idx_error = "none"
    /\ csv = <<>>
    /\ splits_arg = <<>>
    /\ self_data = <<>>
    /\ basename_arg = <<>>
    /\ abspath = <<>>
    /\ resolved_base = <<>>
    /\ exists_mid = FALSE
    /\ exists_midi = FALSE
    /\ resolved = <<>>

Init ==
    /\ StoreUnused
    /\ IndexUnused
    /\ IGNORE_MEL \in BOOLEAN
    /\ data \in SampleLists
    /\ disk \in [OutPaths -> {"absent", "occupied"}]
    /\ closes = <<>>
    /\ pc = "create_mel"
    /\ error = "none"
    /\ i = 0
    /\ midipath = <<>>
    /\ metadata = <<>>
    /\ logmel = <<>>
    /\ vstack = <<>>
    /\ roll = <<>>
    /\ len_roll = 0
    /\ len_logmel = 0
    /\ h5mel = <<>>
    /\ h5roll = <<>>
    /\ outcome = [k \in 1..Len(data) |-> "pending"]

\* An uncaught exception: the interpreter unwinds and the run ends.
Raise(e) ==
    /\ pc' = "aborted"
    /\ error' = e

(***************************************************************************)
(* IncrementalHDF5(path, ..., err_if_exists=True)                          *)
(***************************************************************************)
CanCreate(path) == disk[path] = "absent"

Create(path) == disk' = [disk EXCEPT ![path] = "open"]

\* h5mel = IncrementalHDF5(HDF5_MEL_OUTPATH, ...) unless IGNORE_MEL
CreateMel ==
    /\ pc = "create_mel"
    /\ IF IGNORE_MEL
         THEN /\ pc' = "create_roll"
              /\ UNCHANGED <<disk, error>>
         ELSE IF CanCreate("mel")
                THEN /\ Create("mel")
                     /\ pc' = "create_roll"
                     /\ UNCHANGED error
                ELSE /\ Raise("AlreadyExists")
                     /\ UNCHANGED disk
    /\ UNCHANGED <<aux, IGNORE_MEL, data, closes, i, locals, h5mel, h5roll, outcome>>

\* h5roll = IncrementalHDF5(HDF5_ROLL_OUTPATH, ...)
CreateRoll ==
    /\ pc = "create_roll"
    /\ IF CanCreate("roll")
         THEN /\ Create("roll")
              /\ pc' = "loop"
              /\ UNCHANGED error
         ELSE /\ Raise("AlreadyExists")
              /\ UNCHANGED disk
    /\ UNCHANGED <<aux, IGNORE_MEL, data, closes, i, locals, h5mel, h5roll, outcome>>

(***************************************************************************)
(* The sample loop                                                         *)
(***************************************************************************)
SetOutcome(o) == outcome' = [outcome EXCEPT ![i] = o]

AlwaysLoadAudio == "load_audio"

InvertedStage == IF IGNORE_MEL THEN "load_audio" ELSE "pianoroll"

\* if not CONF.IGNORE_MEL: the audio stage runs before the piano roll stage
StageAfterResolve == IF IGNORE_MEL THEN "pianoroll" ELSE "load_audio"

StorePrepend(store, matrix, meta) ==
    <<[matrix |-> matrix, metadata |-> meta]>> \o store

\* h5.append(matrix, metadata): the store receives the pair after all earlier ones
StoreAppend(store, matrix, meta) ==
    Append(store, [matrix |-> matrix, metadata |-> meta])

\* No MIDI file was found: the iteration ends with continue.
NoPath == <<>>

PreferMidi(basepath, mid_exists, midi_exists) ==
    IF midi_exists THEN MidiPath(basepath, "midi")
    ELSE IF mid_exists THEN MidiPath(basepath, "mid")
    ELSE NoPath

\* if os.path.exists(midipath_mid): ... elif os.path.exists(midipath_midi): ...
ResolvedMidiPath(basepath, mid_exists, midi_exists) ==
    IF mid_exists THEN MidiPath(basepath, "mid")
    ELSE IF midi_exists THEN MidiPath(basepath, "midi")
    ELSE NoPath

\* Head of an iteration: take the next entry and resolve its MIDI path.
ResolveMidi ==
    /\ pc = "loop"
    /\ i < Len(data)
    /\ i' = i + 1
    /\ LET entry == data[i + 1]
           basepath == basename(entry[1])
       IN \E mid_exists \in BOOLEAN, midi_exists \in BOOLEAN :
            IF ResolvedMidiPath(basepath, mid_exists, midi_exists) # NoPath
              THEN /\ midipath' = ResolvedMidiPath(basepath, mid_exists, midi_exists)
                   /\ metadata' = Metadata(entry)
                   /\ pc' = StageAfterResolve
                   /\ UNCHANGED outcome
              ELSE \* continue
                   /\ outcome' = [outcome EXCEPT ![i + 1] = "no_midi"]
                   /\ pc' = "loop"
                   /\ UNCHANGED <<midipath, metadata>>
    /\ UNCHANGED <<aux, IGNORE_MEL, data, disk, closes, error, logmel, vstack, roll,
                   len_roll, len_logmel, h5mel, h5roll>>

\* wave = torch_load_resample_audio(...); logmel = logmel_fn(wave)
LoadAudio ==
    /\ pc = "load_audio"
    /\ \E status \in {"ok", "absent", "failure"}, res \in Logmels :
         IF status = "ok"
           THEN /\ logmel' = res
                /\ pc' = "append_mel"
                /\ UNCHANGED <<error, outcome>>
           ELSE /\ Raise(IF status = "absent" THEN "FileNotFound" ELSE "AudioError")
                /\ SetOutcome(IF status = "absent" THEN "no_audio" ELSE "audio_failure")
                /\ UNCHANGED logmel
    /\ UNCHANGED <<aux, IGNORE_MEL, data, disk, closes, i, midipath, metadata, vstack,
                   roll, len_roll, len_logmel, h5mel, h5roll>>

\* h5mel.append(logmel, metadata)
AppendMel ==
    /\ pc = "append_mel"
    /\ h5mel' = StoreAppend(h5mel, logmel, metadata)
    /\ pc' = "pianoroll"
    /\ UNCHANGED <<aux, IGNORE_MEL, data, disk, closes, error, i, locals, h5roll,
                   outcome>>

\* (...) = pianoroll_fn(midipath, ...); roll = np.vstack([...])
PianoRoll ==
    /\ pc = "pianoroll"
    /\ \E status \in {"ok", "failure"}, res \in Rolls :
         IF status = "ok"
           THEN /\ vstack' = res
                /\ roll' = res
                /\ len_roll' = Len(res)
                /\ pc' = IF IGNORE_MEL THEN "append_roll" ELSE "align"
                /\ UNCHANGED <<error, outcome>>
           ELSE /\ Raise("MidiError")
                /\ SetOutcome("midi_failure")
                /\ UNCHANGED <<vstack, roll, len_roll>>
    /\ UNCHANGED <<aux, IGNORE_MEL, data, disk, closes, i, midipath, metadata, logmel,
                   len_logmel, h5mel, h5roll>>

\* assert len_logmel >= len_roll
LengthOk(n_logmel, n_roll) == n_logmel >= n_roll

\* The same step with the assert statements stripped.
Align_NoAsserts ==
    /\ pc = "align"
    /\ len_logmel' = Len(logmel)
    /\ roll' = IF Len(logmel) > len_roll
                 THEN Pad(roll, Len(logmel) - len_roll)
                 ELSE roll
    /\ pc' = "append_roll"
    /\ UNCHANGED <<error, outcome>>
    /\ UNCHANGED <<aux, IGNORE_MEL, data, disk, closes, i, midipath, metadata, logmel,
                   vstack, len_roll, h5mel, h5roll>>

\* The length check and the padding of the roll.
Align ==
    /\ pc = "align"
    /\ len_logmel' = Len(logmel)
    /\ IF ~LengthOk(Len(logmel), len_roll)
         THEN /\ Raise("AssertionError")
              /\ SetOutcome("roll_too_long")
              /\ UNCHANGED roll
         ELSE LET padded == IF Len(logmel) > len_roll
                              THEN Pad(roll, Len(logmel) - len_roll)
                              ELSE roll
              IN IF Len(logmel) = Len(padded)
                   THEN /\ roll' = padded
                        /\ pc' = "append_roll"
                        /\ UNCHANGED <<error, outcome>>
                   ELSE /\ roll' = padded
                        /\ Raise("AssertionError")
                        /\ SetOutcome("length_mismatch")
    /\ UNCHANGED <<aux, IGNORE_MEL, data, disk, closes, i, midipath, metadata, logmel,
                   vstack, len_roll, h5mel, h5roll>>

\* h5roll.append(roll, metadata), then the progress message
AppendRoll ==
    /\ pc = "append_roll"
    /\ h5roll' = StoreAppend(h5roll, roll, metadata)
    /\ SetOutcome("committed")
    /\ pc' = "loop"
    /\ UNCHANGED <<aux, IGNORE_MEL, data, disk, closes, error, i, locals, h5mel>>

(***************************************************************************)
(* After the loop                                                          *)
(***************************************************************************)
Close(path) ==
    /\ disk' = [disk EXCEPT ![path] = "closed"]
    /\ closes' = Append(closes, path)

\* if not CONF.IGNORE_MEL: h5mel.close()
CloseMel ==
    /\ pc = "loop"
    /\ i = Len(data)
    /\ IF IGNORE_MEL
         THEN UNCHANGED <<disk, closes>>
         ELSE Close("mel")
    /\ pc' = "close_roll"
    /\ UNCHANGED <<aux, IGNORE_MEL, data, error, i, locals, h5mel, h5roll, outcome>>

\* h5roll.close()
CloseRoll ==
    /\ pc = "close_roll"
    /\ Close("roll")
    /\ pc' = "done"
    /\ UNCHANGED <<aux, IGNORE_MEL, data, error, i, locals, h5mel, h5roll, outcome>>

Next ==
    \/ CreateMel
    \/ CreateRoll
    \/ ResolveMidi
    \/ LoadAudio
    \/ AppendMel
    \/ PianoRoll
    \/ Align
    \/ AppendRoll
    \/ CloseMel
    \/ CloseRoll

Spec == Init /\ [][Next]_vars

(***************************************************************************)
(* The feature store (IncrementalHDF5) from the inside: an in-memory       *)
(* write buffer flushed to the on-disk array in chunks of                  *)
(* data_chunk_length columns, and a metadata array with one entry per      *)
(* appended matrix.  A column is modelled by the number of the append      *)
(* that brought it, a metadata string by that same number.                 *)
(***************************************************************************)
\* The main routine is not followed in this specification.
MainUnused ==
    /\ IGNORE_MEL = FALSE
    /\ data = <<>>
    /\ disk = [p \in OutPaths |-> "absent"]
    /\ closes = <<>>
    /\ pc = "unused"
    /\ error = "none"
    /\ i = 0
    /\ midipath = <<>>
    /\ metadata = <<>>
    /\ logmel = <<>>
    /\ vstack = <<>>
    /\ roll = <<>>
    /\ len_roll = 0
    /\ len_logmel = 0
    /\ h5mel = <<>>
    /\ h5roll = <<>>
    /\ outcome = <<>>

\* CONF.MELBINS, the feature height of the spectrogram store
MELBINS == 229

\* The store right after create(path, feature_height, ..., data_chunk_length,
\* metadata_chunk_length, err_if_exists): empty arrays, empty buffers.
StoreInit ==
    /\ MainUnused
    /\ IndexUnused
    /\ fs_state = "open"
    /\ fs_error = "none"
    /\ feature_height = MELBINS
    /\ data_chunk_length \in 1..MaxChunkLength
    /\ metadata_chunk_length \in 1..MaxMetaChunkLength
    /\ write_buffer = <<>>
    /\ buffered_metadata = <<>>
    /\ ready_metadata = <<>>
    /\ committed = <<>>
    /\ sample_boundaries = <<>>
    /\ flushes = <<>>
    /\ appended = <<>>

RECURSIVE Flatten(_)
Flatten(chunks) ==
    IF chunks = <<>> THEN <<>> ELSE Head(chunks) \o Flatten(Tail(chunks))

\* A flush step that fires at most once per append.
FlushOneChunk(buf, chunk_length) ==
    IF Len(buf) >= chunk_length THEN <<SubSeq(buf, 1, chunk_length)>> ELSE <<>>

\* The flush loop: while the buffer holds at least chunk_length columns,
\* slice exactly chunk_length columns off its front and flush them.
RECURSIVE FlushChunks(_, _)
FlushChunks(buf, chunk_length) ==
    IF Len(buf) >= chunk_length
      THEN <<SubSeq(buf, 1, chunk_length)>>
             \o FlushChunks(SubSeq(buf, chunk_length + 1, Len(buf)), chunk_length)
      ELSE <<>>

\* What the flush loop leaves in the buffer.
AfterFlush(buf, chunks) == SubSeq(buf, Len(Flatten(chunks)) + 1, Len(buf))

BufferOffset(on_disk, buf) == Len(buf)

\* Offset of a new sample's first column, relative to all columns ever seen.
SampleOffset(on_disk, buf) == Len(on_disk) + Len(buf)

FlushRecords(by, chunks) ==
    [k \in 1..Len(chunks) |-> [by |-> by, width |-> Len(chunks[k])]]

\* Metadata is flushed in chunks of its own length.
MetadataFlushed(ready, chunk_length) ==
    SubSeq(ready, 1, (Len(ready) \div chunk_length) * chunk_length)

MetadataKept(ready, chunk_length) ==
    SubSeq(ready, (Len(ready) \div chunk_length) * chunk_length + 1, Len(ready))

\* append(matrix, metadata) with matrix of the given shape
FsAppend ==
    /\ fs_state \in {"open", "closed"}
    /\ Len(appended) < MaxAppends
    /\ \E rows \in {feature_height, feature_height + 1}, width \in 1..MaxAppendWidth :
         IF fs_state = "closed"
           THEN /\ fs_error' = "UseAfterClose"
                /\ UNCHANGED <<write_buffer, buffered_metadata, ready_metadata,
                               committed, sample_boundaries, flushes, appended>>
         ELSE IF rows # feature_height
           THEN /\ fs_error' = "ShapeMismatch"
                /\ UNCHANGED <<write_buffer, buffered_metadata, ready_metadata,
                               committed, sample_boundaries, flushes, appended>>
         ELSE LET sample == Len(appended) + 1
                  entry == [offset |-> SampleOffset(committed, write_buffer),
                            width |-> width, metadata |-> sample]
                  buf == write_buffer \o [k \in 1..width |-> sample]
                  chunks == FlushChunks(buf, data_chunk_length)
                  on_disk == committed \o Flatten(chunks)
                  entries == Append(buffered_metadata, entry)
                  Done(e) == e.offset + e.width <= Len(on_disk)
                  ready == ready_metadata \o SelectSeq(entries, Done)
              IN /\ fs_error' = "none"
                 /\ appended' = Append(appended, width)
                 /\ committed' = on_disk
                 /\ write_buffer' = AfterFlush(buf, chunks)
                 /\ flushes' = flushes \o FlushRecords("append", chunks)
                 /\ buffered_metadata' = SelectSeq(entries, LAMBDA e : ~Done(e))
                 /\ sample_boundaries' =
                        sample_boundaries
                          \o MetadataFlushed(ready, metadata_chunk_length)
                 /\ ready_metadata' = MetadataKept(ready, metadata_chunk_length)
    /\ UNCHANGED <<main_vars, index_vars, fs_state, feature_height,
                   data_chunk_length, metadata_chunk_length>>

\* close(): flush the final partial chunk and the remaining metadata
FsClose ==
    /\ fs_state \in {"open", "closed"}
    /\ IF fs_state = "closed"
         THEN /\ fs_error' = "UseAfterClose"
              /\ UNCHANGED <<fs_state, write_buffer, buffered_metadata,
                             ready_metadata, committed, sample_boundaries, flushes>>
         ELSE /\ fs_error' = "none"
              /\ fs_state' = "closed"
              /\ committed' = committed \o write_buffer
              /\ flushes' = flushes \o (IF write_buffer = <<>>
                                          THEN <<>>
                                          ELSE FlushRecords("close", <<write_buffer>>))
              /\ write_buffer' = <<>>
              /\ sample_boundaries' =
                     sample_boundaries \o ready_metadata \o buffered_metadata
              /\ ready_metadata' = <<>>
              /\ buffered_metadata' = <<>>
    /\ UNCHANGED <<main_vars, index_vars, feature_height, data_chunk_length,
                   metadata_chunk_length, appended>>

StoreNext ==
    \/ FsAppend
    \/ FsClose

SpecStore == StoreInit /\ [][StoreNext]_vars

(***************************************************************************)
(* The dataset index MONO_pudoms of PuDoMS.py, and the MIDI path           *)
(* resolution of the main loop applied to one of its entries.              *)
(***************************************************************************)
ALL_SPLITS == {"train", "validation", "test"}

\* The File_Number values and Split values the CSV rows are drawn from.
FileNumbers == {1, 2, 12}
RowSplits == {"train", "test"}

Rows == [File_Number : FileNumbers, Split : RowSplits, Duration : {1},
         Composer : {"comp"}, Title : {"t"}]

\* CSV files of at most MaxRows rows with distinct File_Number values.
CsvFiles ==
    { rows \in UNION { [1..n -> Rows] : n \in 0..MaxRows } :
        \A j \in 1..Len(rows), k \in 1..Len(rows) :
            rows[j].File_Number = rows[k].File_Number => j = k }

\* The splits arguments explored: None, or a set of names.
SplitArgs == {<<>>} \cup { <<S>> : S \in SUBSET {"train", "test", "bogus"} }

Digit(d) == <<"0", "1", "2", "3", "4", "5", "6", "7", "8", "9">>[d + 1]

\* str() of a non-negative integer: its decimal digits
RECURSIVE StrInt(_)
StrInt(n) ==
    IF n < 10 THEN <<Digit(n)>> ELSE StrInt(n \div 10) \o <<Digit(n % 10)>>

\* a in b for two strings: a occurs in b as a substring
IsSubstring(a, b) ==
    \E k \in 0..(Len(b) - Len(a)) : SubSeq(b, k + 1, k + Len(a)) = a

\* assert (s in self.ALL_SPLITS for s in splits): the asserted expression is
\* a generator object, and a generator object is true whatever it yields.
SplitsAssertion(splits) == TRUE

\* os.path.join(self.rootpath, fn)
JoinRoot(fn) == <<"rootpath", "/">> \o fn

IndexInit ==
    /\ MainUnused
    /\ StoreUnused
    /\ idx_state = "new"
    /\ idx_error = "none"
    /\ csv \in CsvFiles
    /\ splits_arg \in SplitArgs
    /\ self_data = <<>>
    /\ basename_arg = <<>>
    /\ abspath = <<>>
    /\ resolved_base = <<>>
    /\ exists_mid = FALSE
    /\ exists_midi = FALSE
    /\ resolved = <<>>

\* MONO_pudoms.__init__(rootpath, splits)
Construct ==
    /\ idx_state = "new"
    /\ LET splits == IF splits_arg = <<>> THEN ALL_SPLITS ELSE splits_arg[1]
           df == SelectSeq(csv, LAMBDA row : row.Split \in splits)
       IN IF ~SplitsAssertion(splits)
            THEN /\ idx_state' = "rejected"
                 /\ idx_error' = "AssertionError"
                 /\ UNCHANGED self_data
            ELSE /\ idx_state' = "constructed"
                 /\ self_data' =
                        [k \in 1..Len(df) |->
                            << StrInt(df[k].File_Number),
                               << df[k].Split, df[k].Duration, df[k].Composer,
                                  df[k].Title >> >>]
                 /\ UNCHANGED idx_error
    /\ UNCHANGED <<main_vars, store_vars, csv, splits_arg, basename_arg, abspath,
                   resolved_base, exists_mid, exists_midi, resolved>>

\* MONO_pudoms.get_file_abspath(basename)
GetFileAbspath ==
    /\ idx_state = "constructed"
    /\ \E b \in { StrInt(n) : n \in FileNumbers } :
         LET fns == [k \in 1..Len(self_data) |-> self_data[k][1]]
             matches == SelectSeq(fns, LAMBDA fn : IsSubstring(b, fn))
         IN /\ basename_arg' = b
            /\ IF Len(matches) = 1
                 THEN /\ abspath' = JoinRoot(matches[1])
                      /\ idx_error' = "none"
                 ELSE /\ abspath' = <<>>
                      /\ idx_error' = "AssertionError"
    /\ UNCHANGED <<main_vars, store_vars, idx_state, csv, splits_arg, self_data,
                   resolved_base, exists_mid, exists_midi, resolved>>

\* The MIDI path resolution of the main loop for one entry of the index.
ResolveEntry ==
    /\ idx_state = "constructed"
    /\ \E k \in 1..Len(self_data), mid \in BOOLEAN, midi \in BOOLEAN :
         /\ resolved_base' = basename(self_data[k][1])
         /\ exists_mid' = mid
         /\ exists_midi' = midi
         /\ resolved' = ResolvedMidiPath(basename(self_data[k][1]), mid, midi)
    /\ UNCHANGED <<main_vars, store_vars, idx_state, idx_error, csv, splits_arg,
                   self_data, basename_arg, abspath>>

IndexNext ==
    \/ Construct
    \/ GetFileAbspath
    \/ ResolveEntry

SpecIndex == IndexInit /\ [][IndexNext]_vars

TypeOK ==
    /\ IGNORE_MEL \in BOOLEAN
    /\ pc \in {"create_mel", "create_roll", "loop", "load_audio", "append_mel",
               "pianoroll", "align", "append_roll", "close_roll", "done",
               "aborted"}
    /\ i \in 0..Len(data)
    /\ Len(outcome) = Len(data)

(***************************************************************************)
(* Vocabulary of the properties                                            *)
(***************************************************************************)
MelEnabled == ~IGNORE_MEL

\* Outcomes in which processing the sample raised.
Failures == {"no_audio", "audio_failure", "midi_failure", "roll_too_long",
             "length_mismatch"}

\* The exceptions a sample can raise.
SampleErrors == {"FileNotFound", "AudioError", "MidiError", "AssertionError"}

Indices == [k \in 1..Len(data) |-> k]

\* The list positions that were committed, in list order.
CommittedIdx == SelectSeq(Indices, LAMBDA k : outcome[k] = "committed")

NumCommitted == Len(CommittedIdx)

MetaOf(store) == [j \in 1..Len(store) |-> store[j].metadata]

MetaOfIdx(idx) == [j \in 1..Len(idx) |-> Metadata(data[idx[j]])]

Last(s) == s[Len(s)]

\* The iteration of entry i has just ended with its commit.
JustCommitted == pc = "loop" /\ i >= 1 /\ outcome[i] = "committed"

(***************************************************************************)
(* C1.  Validate-then-mutate: once a sample has failed (audio load or      *)
(* spectrogram extraction, MIDI or roll extraction, roll wider than the    *)
(* spectrogram) with the spectrogram stream enabled, neither store holds   *)
(* an append for it, so each store holds exactly the committed samples.    *)
(***************************************************************************)
C1_ValidateThenMutate ==
    (MelEnabled /\ \E k \in 1..Len(data) : outcome[k] \in Failures)
        => /\ Len(h5mel) = NumCommitted
           /\ Len(h5roll) = NumCommitted

(***************************************************************************)
(* C2.  With the spectrogram stream enabled, between iterations both       *)
(* stores have received the same number of samples, and for the sample     *)
(* just committed the spectrogram is at least as wide as the roll the      *)
(* extractor returned.                                                     *)
(***************************************************************************)
C2_CountsAlignedAfterIteration ==
    (MelEnabled /\ pc = "loop")
        => /\ Len(h5mel) = Len(h5roll)
           /\ JustCommitted => Len(Last(h5mel).matrix) >= Len(vstack)

C2_Witness ==
    /\ MelEnabled
    /\ JustCommitted
    /\ Len(h5mel) = 2
    /\ Len(h5roll) = 2
    /\ Len(vstack) < Len(Last(h5mel).matrix)

(***************************************************************************)
(* C3.  With the spectrogram stream enabled, the j-th roll in the roll     *)
(* store is as wide as the j-th spectrogram in the spectrogram store; the  *)
(* roll just committed starts with the extracted roll and is zero in       *)
(* every column from len_roll up to the spectrogram's width.               *)
(***************************************************************************)
C3_RollPaddedToSpectrogram ==
    MelEnabled
        => /\ \A j \in 1..Len(h5roll) :
                /\ j <= Len(h5mel)
                /\ Len(h5roll[j].matrix) = Len(h5mel[j].matrix)
           /\ JustCommitted =>
                LET m == Last(h5roll).matrix
                IN /\ Len(m) = Len(logmel)
                   /\ len_roll = Len(vstack)
                   /\ SubSeq(m, 1, len_roll) = vstack
                   /\ \A c \in (len_roll + 1)..Len(m) : m[c] = 0

C3_Witness ==
    /\ MelEnabled
    /\ JustCommitted
    /\ vstack = <<1>>
    /\ Len(logmel) = 2
    /\ Last(h5roll).matrix = <<1, 0>>
    /\ Last(h5mel).matrix = logmel

(***************************************************************************)
(* C4.  Skip does not corrupt: when the run has ended and exactly one      *)
(* entry k raised an extraction failure or had a roll wider than its       *)
(* spectrogram (no other entry raised or was skipped), each enabled store  *)
(* holds the N-1 other entries, in list order, and nothing for k.          *)
(***************************************************************************)
OthersOf(k) == [j \in 1..(Len(data) - 1) |-> IF j < k THEN j ELSE j + 1]

C4_SkipDoesNotCorrupt ==
    \A k \in 1..Len(data) :
        ( /\ pc \in {"done", "aborted"}
          /\ outcome[k] \in {"audio_failure", "midi_failure", "roll_too_long"}
          /\ \A j \in 1..Len(data) :
                j # k => outcome[j] \notin (Failures \cup {"no_midi"}) )
        => /\ MetaOf(h5roll) = MetaOfIdx(OthersOf(k))
           /\ MelEnabled => MetaOf(h5mel) = MetaOfIdx(OthersOf(k))

(***************************************************************************)
(* C5.  No per-sample failure (missing source file, extractor failure,     *)
(* roll longer than spectrogram) aborts the loop: the run is never ended   *)
(* by an exception raised while processing a sample.                       *)
(***************************************************************************)
C5_LoopNeverAborts ==
    /\ error \notin SampleErrors
    /\ pc = "aborted" => i = 0

(***************************************************************************)
(* C6.  A step that finds the audio file or the MIDI file of the current   *)
(* entry absent leaves both stores unchanged and returns to the head of    *)
(* the loop for the next entry.                                            *)
(***************************************************************************)
C6_MissingFileSkips ==
    [][ ( /\ outcome' # outcome
          /\ outcome'[i'] \in {"no_midi", "no_audio"} )
        => /\ h5mel' = h5mel
           /\ h5roll' = h5roll
           /\ pc' = "loop"
           /\ error' = "none" ]_vars

(***************************************************************************)
(* C7.  Order preservation: the roll store holds exactly the committed     *)
(* entries, and the spectrogram store the entries whose spectrogram was    *)
(* appended, each once, in list order and with the entry's own metadata    *)
(* string.                                                                 *)
(***************************************************************************)
\* The list positions whose spectrogram has been appended, in list order.
MelAppendedIdx ==
    SelectSeq(Indices,
              LAMBDA k :
                \/ outcome[k] \in {"committed", "midi_failure", "roll_too_long",
                                   "length_mismatch"}
                \/ k = i /\ pc \in {"pianoroll", "align", "append_roll"})

C7_OrderPreserved ==
    /\ MetaOf(h5roll) = MetaOfIdx(CommittedIdx)
    /\ MelEnabled => MetaOf(h5mel) = MetaOfIdx(MelAppendedIdx)

C7_Witness ==
    /\ pc = "done"
    /\ MelEnabled
    /\ Len(h5roll) = 2
    /\ Len(h5mel) = 2
    /\ h5roll[1].metadata # h5roll[2].metadata
    /\ h5roll[1].metadata = Metadata(data[1])

(***************************************************************************)
(* C8.  Every store that was created is closed exactly once when the run   *)
(* has ended; a store is closed only after the loop is over; the           *)
(* spectrogram store is closed before the roll store, and is not closed    *)
(* at all when the spectrogram stream is disabled.                         *)
(***************************************************************************)
CloseCount(path) == Len(SelectSeq(closes, LAMBDA p : p = path))

C8_ClosedExactlyOnce ==
    /\ pc \in {"done", "aborted"} =>
          \A p \in OutPaths :
              disk[p] \in {"open", "closed"} =>
                  disk[p] = "closed" /\ CloseCount(p) = 1
    /\ closes # <<>> => pc \in {"close_roll", "done"} /\ i = Len(data)
    /\ closes \in {<<>>, <<"mel">>, <<"mel", "roll">>, <<"roll">>}
    /\ IGNORE_MEL => CloseCount("mel") = 0

(***************************************************************************)
(* C9.  With the spectrogram stream disabled no spectrogram store is       *)
(* created, appended to or closed, no audio is loaded, every committed     *)
(* entry is exactly one append to the roll store, and the roll appended    *)
(* is the extracted roll, unpadded.                                        *)
(***************************************************************************)
C9_RollOnly ==
    IGNORE_MEL
        => /\ disk["mel"] \notin {"open", "closed"}
           /\ h5mel = <<>>
           /\ CloseCount("mel") = 0
           /\ pc \notin {"load_audio", "append_mel", "align"}
           /\ logmel = <<>>
           /\ error \notin {"FileNotFound", "AudioError", "AssertionError"}
           /\ Len(h5roll) = NumCommitted
           /\ JustCommitted => Last(h5roll).matrix = vstack

C9_Witness ==
    /\ IGNORE_MEL
    /\ pc = "done"
    /\ Len(h5roll) = 2
    /\ Len(h5roll[1].matrix) # Len(h5roll[2].matrix)
    /\ disk = [mel |-> "absent", roll |-> "closed"]

(***************************************************************************)
(* C10.  Fail-closed on collision: when an output path of the run is       *)
(* occupied at the start, the run gets no further than store creation, it  *)
(* ends with AlreadyExists before any entry is processed or appended, and  *)
(* it leaves no newly created file behind for the other stream.            *)
(***************************************************************************)
Collision ==
    \/ disk["roll"] = "occupied"
    \/ MelEnabled /\ disk["mel"] = "occupied"

C10_FailClosedOnCollision ==
    Collision
        => /\ pc \in {"create_mel", "create_roll", "aborted"}
           /\ i = 0
           /\ h5mel = <<>>
           /\ h5roll = <<>>
           /\ pc = "aborted" =>
                /\ error = "AlreadyExists"
                /\ \A p \in OutPaths : disk[p] \in {"absent", "occupied"}

(***************************************************************************)
(* C11.  Chunk-boundary correctness: once a store is closed, its on-disk   *)
(* length is the sum of the appended widths and its recorded sample        *)
(* boundaries are the prefix sums of those widths, one per append, for     *)
(* every chunk length and every way the total is split across appends.     *)
(***************************************************************************)
RECURSIVE Sum(_)
Sum(widths) == IF widths = <<>> THEN 0 ELSE Head(widths) + Sum(Tail(widths))

PrefixSums(widths) == [k \in 1..Len(widths) |-> Sum(SubSeq(widths, 1, k - 1))]

BoundaryOffsets == [k \in 1..Len(sample_boundaries) |-> sample_boundaries[k].offset]

C11_ClosedStoreHoldsAllColumns ==
    fs_state = "closed"
        => /\ Len(committed) = Sum(appended)
           /\ BoundaryOffsets = PrefixSums(appended)
           /\ \A k \in 1..Len(sample_boundaries) :
                sample_boundaries[k].metadata = k

C11_Witness ==
    /\ fs_state = "closed"
    /\ data_chunk_length = 3
    /\ appended = <<2, 2, 4>>
    /\ Len(committed) = 8
    /\ BoundaryOffsets = <<0, 2, 4>>

(***************************************************************************)
(* C12.  After every append the write buffer holds fewer than              *)
(* data_chunk_length columns; every flush made by append writes exactly    *)
(* data_chunk_length columns; only close writes a shorter chunk, and it    *)
(* is the last flush of the store.                                         *)
(***************************************************************************)
C12_BufferBelowChunkLength ==
    fs_state \in {"open", "closed"}
        => /\ Len(write_buffer) < data_chunk_length
           /\ \A k \in 1..Len(flushes) :
                /\ flushes[k].by = "append" => flushes[k].width = data_chunk_length
                /\ flushes[k].by = "close" =>
                      /\ flushes[k].width \in 1..(data_chunk_length - 1)
                      /\ k = Len(flushes)
                      /\ fs_state = "closed"

C12_Witness ==
    /\ fs_state = "closed"
    /\ data_chunk_length = 2
    /\ appended = <<1, 4>>
    /\ flushes = <<[by |-> "append", width |-> 2], [by |-> "append", width |-> 2],
                   [by |-> "close", width |-> 1]>>

(***************************************************************************)
(* C13.  MIDI path resolution: when '<basename>.mid' exists it is chosen,  *)
(* whether or not '<basename>.midi' exists too; '<basename>.midi' is       *)
(* chosen only when '.mid' does not exist; no path is chosen (the sample   *)
(* is skipped) exactly when neither exists.                                *)
(***************************************************************************)
C13_FirstVariantWins ==
    /\ exists_mid => resolved = MidiPath(resolved_base, "mid")
    /\ (~exists_mid /\ exists_midi) => resolved = MidiPath(resolved_base, "midi")
    /\ resolved = NoPath <=> (~exists_mid /\ ~exists_midi)

C13_Witness ==
    /\ exists_mid
    /\ exists_midi
    /\ resolved_base = <<"1", "2">>
    /\ resolved = <<"INPATH", <<"1", "2">>, "mid">>

(***************************************************************************)
(* C14.  Constructing the index with a splits argument that names a split  *)
(* outside ALL_SPLITS is rejected with an assertion failure before the     *)
(* CSV is loaded: the construction never completes and self.data stays     *)
(* empty.                                                                  *)
(***************************************************************************)
UnknownSplitGiven ==
    splits_arg # <<>> /\ \E s \in splits_arg[1] : s \notin ALL_SPLITS

C14_UnknownSplitRejected ==
    (UnknownSplitGiven /\ idx_state \notin {"unused", "new"})
        => /\ idx_state = "rejected"
           /\ idx_error = "AssertionError"
           /\ self_data = <<>>

(***************************************************************************)
(* C15.  For every id stored in the index, get_file_abspath(id) returns    *)
(* rootpath/id, whatever other ids the index holds.                        *)
(***************************************************************************)
StoredIds == { self_data[k][1] : k \in 1..Len(self_data) }

C15_AbspathOfStoredId ==
    (idx_state = "constructed" /\ basename_arg \in StoredIds)
        => /\ idx_error = "none"
           /\ abspath = JoinRoot(basename_arg)

(***************************************************************************)
(* C16.  With the spectrogram stream enabled, in every state of a run      *)
(* (between samples, in the middle of a sample, at an abort) the           *)
(* spectrogram store has received as many appends as the roll store, or    *)
(* exactly one more.                                                       *)
(***************************************************************************)
C16_MelLeadsByAtMostOne ==
    MelEnabled => Len(h5mel) - Len(h5roll) \in {0, 1}

C16_Witness ==
    /\ MelEnabled
    /\ pc = "aborted"
    /\ error = "AssertionError"
    /\ Len(h5roll) = 1
    /\ Len(h5mel) = 2

(***************************************************************************)
(* C17.  At every position j that both stores hold, the two metadata       *)
(* strings are identical and are the string of (basename, *meta) of the    *)
(* j-th committed list entry.                                              *)
(***************************************************************************)
Min(a, b) == IF a <= b THEN a ELSE b

C17_SameSourceAtEachPosition ==
    \A j \in 1..Min(Len(h5mel), Len(h5roll)) :
        /\ h5mel[j].metadata = h5roll[j].metadata
        /\ j <= Len(CommittedIdx)
        /\ LET entry == data[CommittedIdx[j]]
           IN h5roll[j].metadata
                = <<"(", basename(entry[1])>> \o entry[2] \o <<")">>

C17_Witness ==
    /\ Len(h5mel) = 2
    /\ Len(h5roll) = 2
    /\ data[1][1] = <<"b">>
    /\ data[2][1] = <<"d", "/", "a">>
    /\ h5mel[2].metadata = <<"(", <<"a">>, "test", 2, "comp", "t2", ")">>
    /\ h5roll[2].metadata = h5mel[2].metadata
====
